---- MODULE Spec2Model ----
(***************************************************************************)
(* Queue-and-worker lanes (IntfA_Tx, IntfA_Rx, IntfB_Tx, IntfB_Rx), the    *)
(* facades that pair them (InterfaceA, InterfaceB), and the threads that   *)
(* call them.                                                              *)
(*                                                                         *)
(* A step is one access to shared memory.  Acquiring the mutex and the     *)
(* first access under it are one step: nothing another thread can do in    *)
(* between changes what that access finds.                                 *)
(*                                                                         *)
(* std::vector is not synchronised: push_back and erase load the vector's  *)
(* extent and later store the new one.  Both are a read step (a snapshot   *)
(* of the buffer) and a write step (the snapshot, changed).  Under the     *)
(* lane's mutex the two are one operation; the vec.clear() that init()     *)
(* runs WITHOUT the mutex is a data race with them, and its outcome is     *)
(* left open: the clear lands before the load, after the store, or in      *)
(* between, where the later store overwrites it.                           *)
(***************************************************************************)
EXTENDS Integers, Sequences, FiniteSets, TLC

\* ------------------------------------------------------------- bounds
NumCallers == 2   \* threads calling one lane concurrently
EnqEach == 2      \* addToQueue calls of each of them
MaxEnq == 3       \* addToQueue calls of a program's main thread
MaxInit == 2      \* init calls
MaxClose == 2     \* close calls

\* ------------------------------------------------------------- universe
Lanes == {"ATx", "ARx", "BTx", "BRx"}
Facades == {"A", "B"}
\* the facades ProgramApp holds as members a and b, and their lanes
AppFacades == {"appA", "appB"}
AppLanes == {"appATx", "appARx", "appBTx", "appBRx"}
LaneObjs == Lanes \cup AppLanes
FacadeObjs == Facades \cup AppFacades
Callers == 1..NumCallers
WorkerIds == 1..MaxInit

Tx(f) ==
  CASE f = "A" -> "ATx" [] f = "B" -> "BTx"
    [] f = "appA" -> "appATx" [] f = "appB" -> "appBTx"
Rx(f) ==
  CASE f = "A" -> "ARx" [] f = "B" -> "BRx"
    [] f = "appA" -> "appARx" [] f = "appB" -> "appBRx"
FacadeOf(l) == CHOOSE f \in FacadeObjs : l \in {Tx(f), Rx(f)}

\* the records callers pass: a1 is the field IntfA_Tx tests with %,
\* a2 the field IntfA_Rx compares with 0
Data == {[a1 |-> 2, a2 |-> -1]}
\* records for the rules of interface A: a1 odd and even, of either sign, and
\* a2 negative, zero and positive
RuleData == [a1 : {-3, 0, 1, 2}, a2 : {-5, 0, 5}]
NoData == [a1 |-> 0, a2 |-> 0]
NoLane == "none"
NoApp == [made |-> FALSE, bStart |-> FALSE, pc |-> "none", looped |-> FALSE, i |-> 1]

VARIABLES
  built,      \* the lanes the program constructed
  bStart,     \* bStart of each lane
  vec,        \* vec of each lane: sequence of [id, a1, a2]
  locked,     \* _mutex of each lane
  cpc,        \* position of each calling thread
  cl,         \* the lane its current call is on
  cvia,       \* the facade operation the call came through, if any
  cdata,      \* the record its addToQueue was passed (by reference)
  csnap,      \* addToQueue: the extent push_back loaded
  cret,       \* getStats: the value about to be returned
  cclean,     \* init: no addToQueue on the lane overlapped this call so far
  wk,         \* the detached worker threads, in spawn order; fresh: has not
              \* checked bStart yet, woken: has slept and woken at least once
  nenq,       \* addToQueue calls issued
  cenq,       \* addToQueue calls issued by each thread
  nclose,     \* close calls issued
  pushed,     \* history: ids appended to each lane, in order
  removed,    \* history: ids erased from each lane by workers, in order
  lastWrite,  \* history: who wrote bStart of each lane last
  remClosed,  \* history: erasures since close() wrote bStart last
  clearedAt,  \* history: appends made on the lane when init() last cleared it
  drainAt,    \* history: appends made when the first erasure happened
  fstate,     \* history: last completed lifecycle call of each facade
  given,      \* history: the record each addToQueue call was passed, by id
  cres,       \* the value the thread's last init() or close() returned
  app         \* the ProgramApp object: made, its bStart, the position of the
              \* thread inside run() (i: its next call), whether run() has
              \* slept once

vars == <<built, bStart, vec, locked, cpc, cl, cvia, cdata, csnap, cret, cclean,
          wk, nenq, cenq, nclose, pushed, removed, lastWrite, remClosed,
          clearedAt, drainAt, fstate, given, cres, app>>

\* ------------------------------------------------------------- helpers
\* a vec.clear() of init() ran on the lane after something was appended
wiped == [l \in LaneObjs |-> clearedAt[l] > 0]

Ids(s) == [i \in DOMAIN s |-> s[i].id]

InInit(c) == cpc[c] \in {"init_clear", "init_flag", "init_spawn"}
InAdd(c) == cpc[c] \in {"add_lock", "add_write", "add_unlock"}

\* init calls begun on lane l
InitsOn(l) ==
  Cardinality({w \in DOMAIN wk : wk[w].lane = l})
    + Cardinality({c \in Callers : InInit(c) /\ cl[c] = l})
InitsBegun == Len(wk) + Cardinality({c \in Callers : InInit(c)})

\* threads inside a critical section of lane l
CallersHolding(l) ==
  {c \in Callers : cl[c] = l /\ cpc[c] \in {"add_write", "add_unlock", "stats_ret"}}
WorkersHolding(l) ==
  {w \in DOMAIN wk : wk[w].lane = l /\ wk[w].pc \in {"write", "unlock"}}

LiveWorkers(l) == {w \in DOMAIN wk : wk[w].lane = l /\ wk[w].pc # "done"}

\* ------------------------------------------------------------- construction
\* (variant) a constructor leaving the lane running, bStart{true}
InitWithRunning(objs) ==
  /\ built \in objs
  /\ bStart = [l \in LaneObjs |-> TRUE]
  /\ vec = [l \in LaneObjs |-> <<>>]
  /\ locked = [l \in LaneObjs |-> FALSE]
  /\ cpc = [c \in Callers |-> "idle"]
  /\ cl = [c \in Callers |-> NoLane]
  /\ cvia = [c \in Callers |-> "lane"]
  /\ cdata = [c \in Callers |-> NoData]
  /\ csnap = [c \in Callers |-> <<>>]
  /\ cret = [c \in Callers |-> 0]
  /\ cclean = [c \in Callers |-> TRUE]
  /\ wk = <<>>
  /\ nenq = 0
  /\ cenq = [c \in Callers |-> 0]
  /\ nclose = 0
  /\ pushed = [l \in LaneObjs |-> <<>>]
  /\ removed = [l \in LaneObjs |-> <<>>]
  /\ lastWrite = [l \in LaneObjs |-> "none"]
  /\ remClosed = [l \in LaneObjs |-> 0]
  /\ clearedAt = [l \in LaneObjs |-> 0]
  /\ drainAt = [l \in LaneObjs |-> 0]
  /\ fstate = [f \in FacadeObjs |-> "new"]
  /\ given = <<>>
  /\ cres = [c \in Callers |-> "none"]
  /\ app = NoApp

\* IntfX_Yx::IntfX_Yx() : bStart{false}, vec{}
InitWith(objs) ==
  /\ built \in objs
  /\ bStart = [l \in LaneObjs |-> FALSE]
  /\ vec = [l \in LaneObjs |-> <<>>]
  /\ locked = [l \in LaneObjs |-> FALSE]
  /\ cpc = [c \in Callers |-> "idle"]
  /\ cl = [c \in Callers |-> NoLane]
  /\ cvia = [c \in Callers |-> "lane"]
  /\ cdata = [c \in Callers |-> NoData]
  /\ csnap = [c \in Callers |-> <<>>]
  /\ cret = [c \in Callers |-> 0]
  /\ cclean = [c \in Callers |-> TRUE]
  /\ wk = <<>>
  /\ nenq = 0
  /\ cenq = [c \in Callers |-> 0]
  /\ nclose = 0
  /\ pushed = [l \in LaneObjs |-> <<>>]
  /\ removed = [l \in LaneObjs |-> <<>>]
  /\ lastWrite = [l \in LaneObjs |-> "none"]
  /\ remClosed = [l \in LaneObjs |-> 0]
  /\ clearedAt = [l \in LaneObjs |-> 0]
  /\ drainAt = [l \in LaneObjs |-> 0]
  /\ fstate = [f \in FacadeObjs |-> "new"]
  /\ given = <<>>
  /\ cres = [c \in Callers |-> "none"]
  /\ app = NoApp

\* ------------------------------------------------------------- init()
\* (variant) init() starting the thread before it sets bStart
InitAfterSpawnFirst(pc) ==
  CASE pc = "init_clear" -> "init_spawn"
    [] pc = "init_spawn" -> "init_flag"
    [] OTHER -> "idle"

\* the order of init()'s three statements
InitAfter(pc) ==
  CASE pc = "init_clear" -> "init_flag"
    [] pc = "init_flag" -> "init_spawn"
    [] OTHER -> "idle"

\* a thread enters init() of lane l
InitEnter(c, l, via) ==
  /\ l \in built
  /\ cpc[c] = "idle"
  /\ InitsBegun < MaxInit
  /\ cpc' = [cpc EXCEPT ![c] = "init_clear"]
  /\ cl' = [cl EXCEPT ![c] = l]
  /\ cvia' = [cvia EXCEPT ![c] = via]
  /\ cclean' = [cclean EXCEPT ![c] = \A d \in Callers : ~(InAdd(d) /\ cl[d] = l)]

\* the thread's position after the statement at pc; on return (return true;)
\* its locals die, and a call that came through the facade returns from the
\* facade's init() too (return true;)
InitAdvance(c, pc) ==
  /\ cpc' = [cpc EXCEPT ![c] = InitAfter(pc)]
  /\ cl' = IF InitAfter(pc) = "idle" THEN [cl EXCEPT ![c] = NoLane] ELSE cl
  /\ cvia' = IF InitAfter(pc) = "idle" THEN [cvia EXCEPT ![c] = "lane"] ELSE cvia
  /\ cclean' = IF InitAfter(pc) = "idle" THEN [cclean EXCEPT ![c] = TRUE] ELSE cclean
  /\ fstate' = IF InitAfter(pc) = "idle" /\ cvia[c] = "facade"
                 THEN [fstate EXCEPT ![FacadeOf(cl[c])] = "init"]
                 ELSE fstate
  /\ cres' = IF InitAfter(pc) = "idle" THEN [cres EXCEPT ![c] = "true"] ELSE cres

InitCall(c, l) ==
  /\ InitEnter(c, l, "lane")
  /\ UNCHANGED <<built, bStart, vec, locked, cdata, csnap, cret, wk, nenq, cenq,
                 nclose, pushed, removed, lastWrite, remClosed, clearedAt, drainAt,
                 fstate, given, cres, app>>

\* vec.clear(), outside the mutex
InitClear(c) ==
  /\ cpc[c] = "init_clear"
  /\ vec' = [vec EXCEPT ![cl[c]] = <<>>]
  /\ clearedAt' = [clearedAt EXCEPT ![cl[c]] = Len(pushed[cl[c]])]
  /\ InitAdvance(c, "init_clear")
  /\ UNCHANGED <<built, bStart, locked, cdata, csnap, cret, wk, nenq, cenq,
                 nclose, pushed, removed, lastWrite, remClosed, drainAt, given, app>>

\* bStart = true
InitFlag(c) ==
  /\ cpc[c] = "init_flag"
  /\ bStart' = [bStart EXCEPT ![cl[c]] = TRUE]
  /\ lastWrite' = [lastWrite EXCEPT ![cl[c]] = "init"]
  /\ remClosed' = [remClosed EXCEPT ![cl[c]] = 0]
  /\ InitAdvance(c, "init_flag")
  /\ UNCHANGED <<built, vec, locked, cdata, csnap, cret, wk, nenq, cenq, nclose,
                 pushed, removed, clearedAt, drainAt, given, app>>

\* std::thread t(&process, this); t.detach(); return true;
InitSpawn(c) ==
  /\ cpc[c] = "init_spawn"
  /\ wk' = Append(wk, [lane |-> cl[c], pc |-> "check", snap |-> <<>>, fresh |-> TRUE,
                        woken |-> FALSE])
  /\ InitAdvance(c, "init_spawn")
  /\ UNCHANGED <<built, bStart, vec, locked, cdata, csnap, cret, nenq, cenq,
                 nclose, pushed, removed, lastWrite, remClosed, clearedAt, drainAt, given, app>>

\* ------------------------------------------------------------- close()
\* (variant) close() clearing the flag of every lane
CloseFlagAll(l) ==
  /\ l \in built
  /\ nclose < MaxClose
  /\ nclose' = nclose + 1
  /\ bStart' = [k \in LaneObjs |-> FALSE]
  /\ lastWrite' = [lastWrite EXCEPT ![l] = "close"]

\* (variant) close() switching the flag over
CloseFlagToggle(l) ==
  /\ l \in built
  /\ nclose < MaxClose
  /\ nclose' = nclose + 1
  /\ bStart' = [bStart EXCEPT ![l] = ~@]
  /\ lastWrite' = [lastWrite EXCEPT ![l] = "close"]

\* bStart = false; return true;
CloseFlag(l) ==
  /\ l \in built
  /\ nclose < MaxClose
  /\ nclose' = nclose + 1
  /\ bStart' = [bStart EXCEPT ![l] = FALSE]
  /\ lastWrite' = [lastWrite EXCEPT ![l] = "close"]

\* (variant) close() that also empties the buffer
CloseAndDrain(c, l) ==
  /\ cpc[c] = "idle"
  /\ CloseFlag(l)
  /\ cres' = [cres EXCEPT ![c] = "true"]
  /\ vec' = [vec EXCEPT ![l] = <<>>]
  /\ UNCHANGED <<built, locked, cpc, cl, cvia, cdata, csnap, cret, cclean,
                 wk, nenq, cenq, pushed, removed, remClosed, clearedAt, drainAt,
                 fstate, given, app>>

\* (variant) close() reporting failure on a lane that is not running
CloseOnlyRunning(c, l) ==
  /\ cpc[c] = "idle"
  /\ CloseFlag(l)
  /\ cres' = [cres EXCEPT ![c] = IF bStart[l] THEN "true" ELSE "false"]
  /\ UNCHANGED <<built, vec, locked, cpc, cl, cvia, cdata, csnap, cret, cclean,
                 wk, nenq, cenq, pushed, removed, remClosed, clearedAt, drainAt,
                 fstate, given, app>>

Close(c, l) ==
  /\ cpc[c] = "idle"
  /\ CloseFlag(l)
  /\ cres' = [cres EXCEPT ![c] = "true"]
  /\ UNCHANGED <<built, vec, locked, cpc, cl, cvia, cdata, csnap, cret, cclean,
                 wk, nenq, cenq, pushed, removed, remClosed, clearedAt, drainAt,
                 fstate, given, app>>

\* ------------------------------------------------------------- addToQueue()
\* the % of C++: the remainder has the sign of the dividend
CRem(a, n) == IF a >= 0 THEN a % n ELSE -((-a) % n)

\* (variant) the rule applied twice to one record
TransformTwice(l, d) ==
  CASE l = "ARx" -> IF d.a2 < 0 THEN [d EXCEPT !.a1 = @ + 2]
                                ELSE [d EXCEPT !.a1 = @ - 2]
    [] l = "ATx" -> IF CRem(d.a1, 2) = 0 THEN [d EXCEPT !.a2 = @ + 2]
                                         ELSE [d EXCEPT !.a2 = @ - 2]
    [] OTHER -> d

\* (variant) the test for odd written as a1 % 2 == 1, which a negative odd a1
\* fails
TransformOddIsOne(l, d) ==
  CASE l = "ARx" -> IF d.a2 < 0 THEN [d EXCEPT !.a1 = @ + 1]
                                ELSE [d EXCEPT !.a1 = @ - 1]
    [] l = "ATx" -> IF CRem(d.a1, 2) = 1 THEN [d EXCEPT !.a2 = @ - 1]
                                         ELSE [d EXCEPT !.a2 = @ + 1]
    [] OTHER -> d

\* (variant) the lanes of interface B applying the rule of IntfA_Rx as well
TransformEveryLane(l, d) ==
  CASE l \in {"ATx", "appATx"} ->
            IF CRem(d.a1, 2) = 0 THEN [d EXCEPT !.a2 = @ + 1]
                                 ELSE [d EXCEPT !.a2 = @ - 1]
    [] OTHER -> IF d.a2 < 0 THEN [d EXCEPT !.a1 = @ + 1]
                            ELSE [d EXCEPT !.a1 = @ - 1]

\* the rule each lane applies to the caller's record before push_back; the
\* code adds and subtracts 1.0f, which is exact on the values of Data and
\* RuleData (magnitudes far below 2^24)
Transform(l, d) ==
  CASE l \in {"ARx", "appARx"} ->
            IF d.a2 < 0 THEN [d EXCEPT !.a1 = @ + 1]
                        ELSE [d EXCEPT !.a1 = @ - 1]
    [] l \in {"ATx", "appATx"} ->
            IF CRem(d.a1, 2) = 0 THEN [d EXCEPT !.a2 = @ + 1]
                                 ELSE [d EXCEPT !.a2 = @ - 1]
    [] OTHER -> d

\* a thread enters addToQueue(d) of lane l, directly or through a facade
AddEnter(c, l, d, via) ==
  /\ l \in built
  /\ cpc[c] = "idle"
  /\ nenq' = nenq + 1
  /\ cenq' = [cenq EXCEPT ![c] = @ + 1]
  /\ cpc' = [cpc EXCEPT ![c] = "add_lock"]
  /\ cl' = [cl EXCEPT ![c] = l]
  /\ cvia' = [cvia EXCEPT ![c] = via]
  /\ cdata' = [cdata EXCEPT ![c] = [id |-> nenq + 1, a1 |-> d.a1, a2 |-> d.a2]]
  /\ given' = Append(given, d)
  /\ cclean' = [e \in Callers |-> IF InInit(e) /\ cl[e] = l THEN FALSE ELSE cclean[e]]
  /\ UNCHANGED <<built, bStart, vec, locked, csnap, cret, wk, nclose,
                 pushed, removed, lastWrite, remClosed, clearedAt, drainAt, fstate,
                 cres, app>>

\* a thread calls addToQueue(d) of lane l
AddCall(c, l, d) == AddEnter(c, l, d, "lane")

\* (variant) addToQueue without the lock_guard's wait
AddLockNoGuard(c) ==
  /\ cpc[c] = "add_lock"
  /\ locked' = [locked EXCEPT ![cl[c]] = TRUE]
  /\ cdata' = [cdata EXCEPT ![c] = Transform(cl[c], @)]
  /\ csnap' = [csnap EXCEPT ![c] = vec[cl[c]]]
  /\ cpc' = [cpc EXCEPT ![c] = "add_write"]
  /\ UNCHANGED <<built, bStart, vec, cl, cvia, cret, cclean, wk, nenq, cenq,
                 nclose, pushed, removed, lastWrite, remClosed, clearedAt, drainAt,
                 fstate, given, cres, app>>

\* std::lock_guard<std::mutex> lock(_mutex); the rule on data; push_back's load
\* of the extent
AddLock(c) ==
  /\ cpc[c] = "add_lock"
  /\ ~locked[cl[c]]
  /\ locked' = [locked EXCEPT ![cl[c]] = TRUE]
  /\ cdata' = [cdata EXCEPT ![c] = Transform(cl[c], @)]
  /\ csnap' = [csnap EXCEPT ![c] = vec[cl[c]]]
  /\ cpc' = [cpc EXCEPT ![c] = "add_write"]
  /\ UNCHANGED <<built, bStart, vec, cl, cvia, cret, cclean, wk, nenq, cenq,
                 nclose, pushed, removed, lastWrite, remClosed, clearedAt, drainAt,
                 fstate, given, cres, app>>

\* (variant) a buffer of capacity 2: push_back on a full buffer drops the item
AddWriteBounded(c) ==
  /\ cpc[c] = "add_write"
  /\ vec' = [vec EXCEPT ![cl[c]] = IF Len(csnap[c]) < 2 THEN Append(csnap[c], cdata[c])
                                                         ELSE csnap[c]]
  /\ pushed' = [pushed EXCEPT ![cl[c]] = Append(@, cdata[c].id)]
  /\ csnap' = [csnap EXCEPT ![c] = <<>>]
  /\ cpc' = [cpc EXCEPT ![c] = "add_unlock"]
  /\ UNCHANGED <<built, bStart, locked, cl, cvia, cdata, cret, cclean, wk, nenq,
                 cenq, nclose, removed, lastWrite, remClosed, clearedAt, drainAt,
                 fstate, given, cres, app>>

\* push_back's store
AddWrite(c) ==
  /\ cpc[c] = "add_write"
  /\ vec' = [vec EXCEPT ![cl[c]] = Append(csnap[c], cdata[c])]
  /\ pushed' = [pushed EXCEPT ![cl[c]] = Append(@, cdata[c].id)]
  /\ csnap' = [csnap EXCEPT ![c] = <<>>]
  /\ cpc' = [cpc EXCEPT ![c] = "add_unlock"]
  /\ UNCHANGED <<built, bStart, locked, cl, cvia, cdata, cret, cclean, wk, nenq,
                 cenq, nclose, removed, lastWrite, remClosed, clearedAt, drainAt,
                 fstate, given, cres, app>>

\* ~lock_guard, return
AddUnlock(c) ==
  /\ cpc[c] = "add_unlock"
  /\ locked' = [locked EXCEPT ![cl[c]] = FALSE]
  /\ cdata' = [cdata EXCEPT ![c] = NoData]
  /\ cpc' = [cpc EXCEPT ![c] = "idle"]
  /\ cl' = [cl EXCEPT ![c] = NoLane]
  /\ cvia' = [cvia EXCEPT ![c] = "lane"]
  /\ UNCHANGED <<built, bStart, vec, csnap, cret, cclean, wk, nenq, cenq,
                 nclose, pushed, removed, lastWrite, remClosed, clearedAt, drainAt,
                 fstate, given, cres, app>>

\* (variant) addToQueue taking its record by value: the caller's record is
\* after the call what it was before
AddReturnByValue(c) ==
  /\ cpc[c] = "add_unlock"
  /\ locked' = [locked EXCEPT ![cl[c]] = FALSE]
  /\ cdata' = [cdata EXCEPT ![c].a1 = given[cdata[c].id].a1,
                            ![c].a2 = given[cdata[c].id].a2]
  /\ cpc' = [cpc EXCEPT ![c] = "idle"]
  /\ cl' = [cl EXCEPT ![c] = NoLane]
  /\ cvia' = [cvia EXCEPT ![c] = "lane"]
  /\ UNCHANGED <<built, bStart, vec, csnap, cret, cclean, wk, nenq, cenq,
                 nclose, pushed, removed, lastWrite, remClosed, clearedAt, drainAt,
                 fstate, given, cres, app>>

\* ~lock_guard, return, to a caller that keeps the record it passed: data is a
\* reference (structA& data), so the record is as the rule left it
AddReturn(c) ==
  /\ cpc[c] = "add_unlock"
  /\ locked' = [locked EXCEPT ![cl[c]] = FALSE]
  /\ cpc' = [cpc EXCEPT ![c] = "idle"]
  /\ cl' = [cl EXCEPT ![c] = NoLane]
  /\ cvia' = [cvia EXCEPT ![c] = "lane"]
  /\ UNCHANGED <<built, bStart, vec, cdata, csnap, cret, cclean, wk, nenq, cenq,
                 nclose, pushed, removed, lastWrite, remClosed, clearedAt, drainAt,
                 fstate, given, cres, app>>

\* ------------------------------------------------------------- getStats()
\* a thread enters getStats() of lane l
StatsBegin(c, l, via) ==
  /\ l \in built
  /\ cpc[c] = "idle"
  /\ cpc' = [cpc EXCEPT ![c] = "stats_lock"]
  /\ cl' = [cl EXCEPT ![c] = l]
  /\ cvia' = [cvia EXCEPT ![c] = via]
  /\ UNCHANGED <<built, bStart, vec, locked, cdata, csnap, cret, cclean,
                 wk, nenq, cenq, nclose, pushed, removed, lastWrite, remClosed,
                 clearedAt, drainAt, fstate, given, cres>>

\* a thread enters getStats() of lane l, directly or through a facade
StatsEnter(c, l, via) ==
  /\ StatsBegin(c, l, via)
  /\ UNCHANGED app

StatsCall(c, l) == StatsEnter(c, l, "lane")

\* std::lock_guard<std::mutex> lock(_mutex); vec.size()
StatsLock(c) ==
  /\ cpc[c] = "stats_lock"
  /\ ~locked[cl[c]]
  /\ locked' = [locked EXCEPT ![cl[c]] = TRUE]
  /\ cret' = [cret EXCEPT ![c] = Len(vec[cl[c]])]
  /\ cpc' = [cpc EXCEPT ![c] = "stats_ret"]
  /\ UNCHANGED <<built, bStart, vec, cl, cvia, cdata, csnap, cclean, wk, nenq,
                 cenq, nclose, pushed, removed, lastWrite, remClosed, clearedAt,
                 drainAt, fstate, given, cres, app>>

\* ~lock_guard, return
StatsRet(c) ==
  /\ cpc[c] = "stats_ret"
  /\ locked' = [locked EXCEPT ![cl[c]] = FALSE]
  /\ cret' = [cret EXCEPT ![c] = 0]
  /\ cpc' = [cpc EXCEPT ![c] = "idle"]
  /\ cl' = [cl EXCEPT ![c] = NoLane]
  /\ cvia' = [cvia EXCEPT ![c] = "lane"]
  /\ UNCHANGED <<built, bStart, vec, cdata, csnap, cclean, wk, nenq, cenq,
                 nclose, pushed, removed, lastWrite, remClosed, clearedAt, drainAt,
                 fstate, given, cres, app>>

\* ------------------------------------------------------------- process()
\* (variant) process() looping without looking at bStart, while (true)
WorkerCheckForever(w) ==
  /\ w \in DOMAIN wk
  /\ wk[w].pc = "check"
  /\ wk' = [wk EXCEPT ![w].pc = "lock",
                      ![w].fresh = FALSE]
  /\ UNCHANGED <<built, bStart, vec, locked, cpc, cl, cvia, cdata, csnap, cret,
                 cclean, nenq, cenq, nclose, pushed, removed, lastWrite,
                 remClosed, clearedAt, drainAt, fstate, given, cres, app>>

\* while (bStart)
WorkerCheck(w) ==
  /\ w \in DOMAIN wk
  /\ wk[w].pc = "check"
  /\ wk' = [wk EXCEPT ![w].pc = IF bStart[wk[w].lane] THEN "lock" ELSE "done",
                      ![w].fresh = FALSE]
  /\ UNCHANGED <<built, bStart, vec, locked, cpc, cl, cvia, cdata, csnap, cret,
                 cclean, nenq, cenq, nclose, pushed, removed, lastWrite,
                 remClosed, clearedAt, drainAt, fstate, given, cres, app>>

\* (variant) process() without the wait for the mutex
WorkerLockNoGuard(w) ==
  /\ w \in DOMAIN wk
  /\ wk[w].pc = "lock"
  /\ locked' = [locked EXCEPT ![wk[w].lane] = TRUE]
  /\ wk' = IF vec[wk[w].lane] # <<>>
             THEN [wk EXCEPT ![w].pc = "write", ![w].snap = vec[wk[w].lane]]
             ELSE [wk EXCEPT ![w].pc = "unlock"]
  /\ UNCHANGED <<built, bStart, vec, cpc, cl, cvia, cdata, csnap, cret, cclean,
                 nenq, cenq, nclose, pushed, removed, lastWrite, remClosed,
                 clearedAt, drainAt, fstate, given, cres, app>>

\* _mutex.lock(); if (!vec.empty()) { vec.front(); erase's load of the extent
WorkerLock(w) ==
  /\ w \in DOMAIN wk
  /\ wk[w].pc = "lock"
  /\ ~locked[wk[w].lane]
  /\ locked' = [locked EXCEPT ![wk[w].lane] = TRUE]
  /\ wk' = IF vec[wk[w].lane] # <<>>
             THEN [wk EXCEPT ![w].pc = "write", ![w].snap = vec[wk[w].lane]]
             ELSE [wk EXCEPT ![w].pc = "unlock"]
  /\ UNCHANGED <<built, bStart, vec, cpc, cl, cvia, cdata, csnap, cret, cclean,
                 nenq, cenq, nclose, pushed, removed, lastWrite, remClosed,
                 clearedAt, drainAt, fstate, given, cres, app>>

\* (variant) process() erasing the last element, vec.pop_back()
WorkerWriteLast(w) ==
  /\ w \in DOMAIN wk
  /\ wk[w].pc = "write"
  /\ vec' = [vec EXCEPT ![wk[w].lane] = SubSeq(wk[w].snap, 1, Len(wk[w].snap) - 1)]
  /\ removed' = [removed EXCEPT ![wk[w].lane] = Append(@, wk[w].snap[Len(wk[w].snap)].id)]
  /\ remClosed' = [remClosed EXCEPT ![wk[w].lane] =
                     IF lastWrite[wk[w].lane] = "close" THEN @ + 1 ELSE @]
  /\ drainAt' = [drainAt EXCEPT ![wk[w].lane] =
                   IF removed[wk[w].lane] = <<>> THEN Len(pushed[wk[w].lane]) ELSE @]
  /\ wk' = [wk EXCEPT ![w].pc = "unlock", ![w].snap = <<>>]
  /\ UNCHANGED <<built, bStart, locked, cpc, cl, cvia, cdata, csnap, cret,
                 cclean, nenq, cenq, nclose, pushed, lastWrite, clearedAt, fstate, given, cres, app>>

\* (variant) process() reading vec.front() and erasing nothing
WorkerWriteKeep(w) ==
  /\ w \in DOMAIN wk
  /\ wk[w].pc = "write"
  /\ wk' = [wk EXCEPT ![w].pc = "unlock", ![w].snap = <<>>]
  /\ UNCHANGED <<built, bStart, vec, locked, cpc, cl, cvia, cdata, csnap, cret,
                 cclean, nenq, cenq, nclose, pushed, removed, lastWrite, remClosed,
                 clearedAt, drainAt, fstate, given, cres, app>>

\* (variant) process() stopping the lane when it has erased the last element
WorkerWriteStops(w) ==
  /\ w \in DOMAIN wk
  /\ wk[w].pc = "write"
  /\ vec' = [vec EXCEPT ![wk[w].lane] = Tail(wk[w].snap)]
  /\ removed' = [removed EXCEPT ![wk[w].lane] = Append(@, Head(wk[w].snap).id)]
  /\ remClosed' = [remClosed EXCEPT ![wk[w].lane] =
                     IF lastWrite[wk[w].lane] = "close" THEN @ + 1 ELSE @]
  /\ drainAt' = [drainAt EXCEPT ![wk[w].lane] =
                   IF removed[wk[w].lane] = <<>> THEN Len(pushed[wk[w].lane]) ELSE @]
  /\ bStart' = [bStart EXCEPT ![wk[w].lane] = @ /\ Len(wk[w].snap) > 1]
  /\ wk' = [wk EXCEPT ![w].pc = "unlock", ![w].snap = <<>>]
  /\ UNCHANGED <<built, locked, cpc, cl, cvia, cdata, csnap, cret,
                 cclean, nenq, cenq, nclose, pushed, lastWrite, clearedAt, fstate, given, cres, app>>

\* erase's store: everything after the first element, moved down
WorkerWrite(w) ==
  /\ w \in DOMAIN wk
  /\ wk[w].pc = "write"
  /\ vec' = [vec EXCEPT ![wk[w].lane] = Tail(wk[w].snap)]
  /\ removed' = [removed EXCEPT ![wk[w].lane] = Append(@, Head(wk[w].snap).id)]
  /\ remClosed' = [remClosed EXCEPT ![wk[w].lane] =
                     IF lastWrite[wk[w].lane] = "close" THEN @ + 1 ELSE @]
  /\ drainAt' = [drainAt EXCEPT ![wk[w].lane] =
                   IF removed[wk[w].lane] = <<>> THEN Len(pushed[wk[w].lane]) ELSE @]
  /\ wk' = [wk EXCEPT ![w].pc = "unlock", ![w].snap = <<>>]
  /\ UNCHANGED <<built, bStart, locked, cpc, cl, cvia, cdata, csnap, cret,
                 cclean, nenq, cenq, nclose, pushed, lastWrite, clearedAt, fstate, given, cres, app>>

\* (variant) process() going to sleep without releasing the mutex
WorkerUnlockKeep(w) ==
  /\ w \in DOMAIN wk
  /\ wk[w].pc = "unlock"
  /\ wk' = [wk EXCEPT ![w].pc = "sleep"]
  /\ UNCHANGED <<built, bStart, vec, locked, cpc, cl, cvia, cdata, csnap, cret, cclean,
                 nenq, cenq, nclose, pushed, removed, lastWrite, remClosed,
                 clearedAt, drainAt, fstate, given, cres, app>>

\* (variant) process() looping back for the next element without sleeping
\* while the buffer is not empty
WorkerUnlockDrain(w) ==
  /\ w \in DOMAIN wk
  /\ wk[w].pc = "unlock"
  /\ locked' = [locked EXCEPT ![wk[w].lane] = FALSE]
  /\ wk' = [wk EXCEPT ![w].pc = IF vec[wk[w].lane] # <<>> THEN "lock" ELSE "sleep"]
  /\ UNCHANGED <<built, bStart, vec, cpc, cl, cvia, cdata, csnap, cret, cclean,
                 nenq, cenq, nclose, pushed, removed, lastWrite, remClosed,
                 clearedAt, drainAt, fstate, given, cres, app>>

\* _mutex.unlock()
WorkerUnlock(w) ==
  /\ w \in DOMAIN wk
  /\ wk[w].pc = "unlock"
  /\ locked' = [locked EXCEPT ![wk[w].lane] = FALSE]
  /\ wk' = [wk EXCEPT ![w].pc = "sleep"]
  /\ UNCHANGED <<built, bStart, vec, cpc, cl, cvia, cdata, csnap, cret, cclean,
                 nenq, cenq, nclose, pushed, removed, lastWrite, remClosed,
                 clearedAt, drainAt, fstate, given, cres, app>>

\* (variant) process() testing bStart once, before a loop that never tests it
WorkerWakeNoCheck(w) ==
  /\ w \in DOMAIN wk
  /\ wk[w].pc = "sleep"
  /\ wk' = [wk EXCEPT ![w].pc = "lock", ![w].woken = TRUE]
  /\ UNCHANGED <<built, bStart, vec, locked, cpc, cl, cvia, cdata, csnap, cret,
                 cclean, nenq, cenq, nclose, pushed, removed, lastWrite,
                 remClosed, clearedAt, drainAt, fstate, given, cres, app>>

\* std::this_thread::sleep_for(500 ms) is over
WorkerWake(w) ==
  /\ w \in DOMAIN wk
  /\ wk[w].pc = "sleep"
  /\ wk' = [wk EXCEPT ![w].pc = "check", ![w].woken = TRUE]
  /\ UNCHANGED <<built, bStart, vec, locked, cpc, cl, cvia, cdata, csnap, cret,
                 cclean, nenq, cenq, nclose, pushed, removed, lastWrite,
                 remClosed, clearedAt, drainAt, fstate, given, cres, app>>

\* ------------------------------------------------------------- facades
\* the lane InterfaceX::init() calls init() on
FacadeInitTarget(f) == Tx(f)

\* (variant) close() of the facade reaching the receive lane only
FacadeCloseTargetRx(f) == Rx(f)

\* the lane InterfaceX::close() calls close() on
FacadeCloseTarget(f) == Tx(f)

\* InterfaceX::init(): intfTx.init(); return true;
FacadeInit(c, f) ==
  /\ InitEnter(c, FacadeInitTarget(f), "facade")
  /\ UNCHANGED <<built, bStart, vec, locked, cdata, csnap, cret, wk, nenq, cenq,
                 nclose, pushed, removed, lastWrite, remClosed, clearedAt, drainAt,
                 fstate, given, cres, app>>

\* void InterfaceX::close(): intfTx.close();
FacadeClose(c, f) ==
  /\ cpc[c] = "idle"
  /\ CloseFlag(FacadeCloseTarget(f))
  /\ fstate' = [fstate EXCEPT ![f] = "close"]
  /\ cres' = [cres EXCEPT ![c] = "void"]
  /\ UNCHANGED <<built, vec, locked, cpc, cl, cvia, cdata, csnap, cret, cclean,
                 wk, nenq, cenq, pushed, removed, remClosed, clearedAt, drainAt, given, app>>

\* (variant) addToTx() forwarding to the receive lane
FacadeAddToTxAsRx(c, f, d) ==
  /\ cenq[c] < MaxEnq
  /\ AddEnter(c, Rx(f), d, "addToTx")

\* InterfaceX::addToTx(data): intfTx.addToQueue(data)
FacadeAddToTx(c, f, d) ==
  /\ cenq[c] < MaxEnq
  /\ AddEnter(c, Tx(f), d, "addToTx")

\* (variant) addToRx() forwarding to the transmit lane
FacadeAddToRxAsTx(c, f, d) ==
  /\ cenq[c] < MaxEnq
  /\ AddEnter(c, Tx(f), d, "addToRx")

\* InterfaceX::addToRx(data): intfRx.addToQueue(data)
FacadeAddToRx(c, f, d) ==
  /\ cenq[c] < MaxEnq
  /\ AddEnter(c, Rx(f), d, "addToRx")

\* (variant) getTxStats() reading the receive lane
FacadeGetTxStatsOfRx(c, f) == StatsEnter(c, Rx(f), "getTxStats")

\* InterfaceX::getTxStats(): return intfTx.getStats()
FacadeGetTxStats(c, f) == StatsEnter(c, Tx(f), "getTxStats")

\* InterfaceX::getRxStats(): return intfRx.getStats()
FacadeGetRxStats(c, f) == StatsEnter(c, Rx(f), "getRxStats")

\* ------------------------------------------------------------- threads
InitStep(c) == InitClear(c) \/ InitFlag(c) \/ InitSpawn(c)
AddStep(c) == AddLock(c) \/ AddWrite(c) \/ AddUnlock(c)
StatsStep(c) == StatsLock(c) \/ StatsRet(c)

WorkerStep(w) ==
  \/ WorkerCheck(w)
  \/ WorkerLock(w)
  \/ WorkerWrite(w)
  \/ WorkerUnlock(w)
  \/ WorkerWake(w)

\* ------------------------------------------------------------- programs
\* (1) One lane object, driven by the thread that constructed it, as in the
\*     lanes' unit tests.
MainThread == {1}
OneLane == {{l} : l \in Lanes}

LaneAdd(c, l, d) ==
  /\ cenq[c] < MaxEnq
  /\ AddCall(c, l, d)

LaneCall(c, l) ==
  \/ InitCall(c, l)
  \/ Close(c, l)
  \/ \E d \in Data : LaneAdd(c, l, d)
  \/ StatsCall(c, l)

Init == InitWith(OneLane)

Next ==
  \/ \E c \in MainThread, l \in Lanes : LaneCall(c, l)
  \/ \E c \in MainThread : InitStep(c) \/ AddStep(c) \/ StatsStep(c)
  \/ \E w \in WorkerIds : WorkerStep(w)

Spec == Init /\ [][Next]_vars

\* The same program on a scheduler that lets every thread run: a thread that
\* can take a step takes it, and a thread waiting for the mutex gets it when
\* it is released again and again.
Fairness ==
  /\ \A c \in MainThread : WF_vars(InitStep(c))
  /\ \A c \in MainThread : SF_vars(AddStep(c) \/ StatsStep(c))
  /\ \A w \in WorkerIds : SF_vars(WorkerStep(w))

SpecFair == Init /\ [][Next]_vars /\ Fairness

\* (2) NumCallers threads enqueueing on one lane that was never initialised.
EnqAdd(c, l, d) ==
  /\ cenq[c] < EnqEach
  /\ AddCall(c, l, d)

EnqCall(c, l) ==
  \/ \E d \in Data : EnqAdd(c, l, d)
  \/ StatsCall(c, l)

NextEnq ==
  \/ \E c \in Callers, l \in Lanes : EnqCall(c, l)
  \/ \E c \in Callers : AddStep(c) \/ StatsStep(c)

SpecEnq == Init /\ [][NextEnq]_vars

\* (3) One lane that was never initialised, and a thread enqueueing records of
\*     every kind the rules tell apart.
RuleAdd(c, l, d) ==
  /\ cenq[c] < MaxEnq
  /\ AddCall(c, l, d)

NextRule ==
  \/ \E c \in MainThread, l \in Lanes, d \in RuleData : RuleAdd(c, l, d)
  \/ \E c \in MainThread : AddStep(c)

SpecRule == Init /\ [][NextRule]_vars

\* (3b) One lane that was never initialised, and a thread that passes one and
\*      the same record to addToQueue again and again.
SameFirst(c, l, d) ==
  /\ cenq[c] = 0
  /\ AddCall(c, l, d)

SameAgain(c, l) ==
  /\ cenq[c] > 0
  /\ cenq[c] < MaxEnq
  /\ AddCall(c, l, [a1 |-> cdata[c].a1, a2 |-> cdata[c].a2])

SameStep(c) == AddLock(c) \/ AddWrite(c) \/ AddReturn(c)

NextSame ==
  \/ \E c \in MainThread, l \in Lanes, d \in RuleData : SameFirst(c, l, d)
  \/ \E c \in MainThread, l \in Lanes : SameAgain(c, l)
  \/ \E c \in MainThread : SameStep(c)

SpecSame == Init /\ [][NextSame]_vars

\* (3c) One lane object that the thread which constructed it destroys after
\*      close(), as the lanes' unit tests do at the end of their scope. The
\*      detached worker is not joined; what it reads from the destroyed object
\*      is indeterminate.
\* IntfX_Yx::~IntfX_Yx(): vec.clear(), outside the mutex; the object is gone
Destroy(c, l) ==
  /\ cpc[c] = "idle"
  /\ l \in built
  /\ built' = built \ {l}
  /\ vec' = [vec EXCEPT ![l] = <<>>]
  /\ UNCHANGED <<bStart, locked, cpc, cl, cvia, cdata, csnap, cret, cclean, wk,
                 nenq, cenq, nclose, pushed, removed, lastWrite, remClosed,
                 clearedAt, drainAt, fstate, given, cres, app>>

\* the caller follows the protocol: close() was the last lifecycle call
DestroyClosed(c, l) ==
  /\ lastWrite[l] = "close"
  /\ Destroy(c, l)

\* while (bStart) on a destroyed lane: the read of the freed flag may yield
\* true as well as the false close() stored (WorkerCheck)
WorkerCheckDestroyed(w) ==
  /\ w \in DOMAIN wk
  /\ wk[w].pc = "check"
  /\ wk[w].lane \notin built
  /\ wk' = [wk EXCEPT ![w].pc = "lock", ![w].fresh = FALSE]
  /\ UNCHANGED <<built, bStart, vec, locked, cpc, cl, cvia, cdata, csnap, cret,
                 cclean, nenq, cenq, nclose, pushed, removed, lastWrite,
                 remClosed, clearedAt, drainAt, fstate, given, cres, app>>

DestroyCall(c, l) ==
  \/ InitCall(c, l)
  \/ Close(c, l)
  \/ \E d \in Data : LaneAdd(c, l, d)
  \/ DestroyClosed(c, l)

NextDestroy ==
  \/ \E c \in MainThread, l \in Lanes : DestroyCall(c, l)
  \/ \E c \in MainThread : InitStep(c) \/ AddStep(c)
  \/ \E w \in WorkerIds : WorkerStep(w) \/ WorkerCheckDestroyed(w)

SpecDestroy == Init /\ [][NextDestroy]_vars

\* (4) One facade object with its two lanes, driven by the thread that
\*     constructed it.
OneFacade == {{Tx(f), Rx(f)} : f \in Facades}

FacadeCall(c, f) ==
  \/ FacadeInit(c, f)
  \/ FacadeClose(c, f)
  \/ \E d \in Data : FacadeAddToTx(c, f, d)
  \/ \E d \in Data : FacadeAddToRx(c, f, d)
  \/ FacadeGetTxStats(c, f)
  \/ FacadeGetRxStats(c, f)

InitFacade == InitWith(OneFacade)

NextFacade ==
  \/ \E c \in MainThread, f \in Facades : FacadeCall(c, f)
  \/ \E c \in MainThread : InitStep(c) \/ AddStep(c) \/ StatsStep(c)
  \/ \E w \in WorkerIds : WorkerStep(w)

SpecFacade == InitFacade /\ [][NextFacade]_vars

\* (5) The facade scenario: the first thread calls init() of the facade; when
\*     it has returned, the first thread calls addToRx once and the second
\*     addToTx once, concurrently, and any thread reads the statistics.
ScenarioInit(c, f) ==
  /\ c = 1
  /\ fstate[f] = "new"
  /\ FacadeInit(c, f)

ScenarioAddToRx(c, f, d) ==
  /\ c = 1
  /\ fstate[f] = "init"
  /\ cenq[c] = 0
  /\ FacadeAddToRx(c, f, d)

ScenarioAddToTx(c, f, d) ==
  /\ c = 2
  /\ fstate[f] = "init"
  /\ cenq[c] = 0
  /\ FacadeAddToTx(c, f, d)

ScenarioGetRxStats(c, f) ==
  /\ fstate[f] = "init"
  /\ FacadeGetRxStats(c, f)

ScenarioGetTxStats(c, f) ==
  /\ fstate[f] = "init"
  /\ FacadeGetTxStats(c, f)

NextScenario ==
  \/ \E c \in Callers, f \in Facades : ScenarioInit(c, f)
  \/ \E c \in Callers, f \in Facades, d \in Data : ScenarioAddToRx(c, f, d)
  \/ \E c \in Callers, f \in Facades, d \in Data : ScenarioAddToTx(c, f, d)
  \/ \E c \in Callers, f \in Facades : ScenarioGetRxStats(c, f)
  \/ \E c \in Callers, f \in Facades : ScenarioGetTxStats(c, f)
  \/ \E c \in Callers : InitStep(c) \/ AddStep(c) \/ StatsStep(c)
  \/ \E w \in WorkerIds : WorkerStep(w)

SpecScenario == InitFacade /\ [][NextScenario]_vars

\* The scenario on a scheduler that lets every thread run (both callers and
\* every worker).
FairnessScenario ==
  /\ \A c \in Callers : WF_vars(InitStep(c))
  /\ \A c \in Callers : SF_vars(AddStep(c) \/ StatsStep(c))
  /\ \A w \in WorkerIds : SF_vars(WorkerStep(w))

SpecScenarioFair == InitFacade /\ [][NextScenario]_vars /\ FairnessScenario

\* (5b) A facade and a copy of it: the thread that constructed the facade calls
\*      its operations, copy-constructs a second facade from it, assigns the
\*      one to the other, and calls the copy's operations.
\* the object copy-constructed from facade f
CopyOf(f) == IF f = "A" THEN "appA" ELSE "appB"

Copied(f) == Tx(CopyOf(f)) \in built

\* (variant) a copy constructor that copies the lanes' buffers and flags
CopyFacadeDeep(c, f) ==
  /\ cpc[c] = "idle"
  /\ Tx(f) \in built
  /\ ~Copied(f)
  /\ built' = built \cup {Tx(CopyOf(f)), Rx(CopyOf(f))}
  /\ vec' = [vec EXCEPT ![Tx(CopyOf(f))] = vec[Tx(f)], ![Rx(CopyOf(f))] = vec[Rx(f)]]
  /\ bStart' = [bStart EXCEPT ![Tx(CopyOf(f))] = bStart[Tx(f)],
                              ![Rx(CopyOf(f))] = bStart[Rx(f)]]
  /\ UNCHANGED <<locked, cpc, cl, cvia, cdata, csnap, cret, cclean, wk,
                 nenq, cenq, nclose, pushed, removed, lastWrite, remClosed,
                 clearedAt, drainAt, fstate, given, cres, app>>

\* InterfaceX::InterfaceX(const InterfaceX&) {}: the new object's intfTx and
\* intfRx are default-constructed; nothing is read from the source
CopyFacade(c, f) ==
  /\ cpc[c] = "idle"
  /\ Tx(f) \in built
  /\ ~Copied(f)
  /\ built' = built \cup {Tx(CopyOf(f)), Rx(CopyOf(f))}
  /\ UNCHANGED <<bStart, vec, locked, cpc, cl, cvia, cdata, csnap, cret, cclean, wk,
                 nenq, cenq, nclose, pushed, removed, lastWrite, remClosed,
                 clearedAt, drainAt, fstate, given, cres, app>>

\* InterfaceX InterfaceX::operator=(const InterfaceX&) { return *this; }:
\* neither operand is written; the value returned is a temporary copy
AssignFacade(c, f) ==
  /\ cpc[c] = "idle"
  /\ Copied(f)
  /\ cres' = [cres EXCEPT ![c] = "copy"]
  /\ UNCHANGED <<built, bStart, vec, locked, cpc, cl, cvia, cdata, csnap, cret,
                 cclean, wk, nenq, cenq, nclose, pushed, removed, lastWrite,
                 remClosed, clearedAt, drainAt, fstate, given, app>>

\* calls on the source before it is copied
SourceInit(c, f) ==
  /\ ~Copied(f)
  /\ FacadeInit(c, f)

SourceAddToTx(c, f, d) ==
  /\ ~Copied(f)
  /\ cenq[c] < EnqEach - 1
  /\ FacadeAddToTx(c, f, d)

SourceAddToRx(c, f, d) ==
  /\ ~Copied(f)
  /\ cenq[c] < EnqEach - 1
  /\ FacadeAddToRx(c, f, d)

\* calls on the copy
CopyInit(c, f) ==
  /\ Copied(f)
  /\ FacadeInit(c, CopyOf(f))

CopyClose(c, f) ==
  /\ Copied(f)
  /\ FacadeClose(c, CopyOf(f))

CopyAddToTx(c, f, d) ==
  /\ Copied(f)
  /\ cenq[c] < EnqEach
  /\ FacadeAddToTx(c, CopyOf(f), d)

CopyAddToRx(c, f, d) ==
  /\ Copied(f)
  /\ cenq[c] < EnqEach
  /\ FacadeAddToRx(c, CopyOf(f), d)

NextCopy ==
  \/ \E c \in MainThread, f \in Facades : SourceInit(c, f)
  \/ \E c \in MainThread, f \in Facades, d \in Data : SourceAddToTx(c, f, d)
  \/ \E c \in MainThread, f \in Facades, d \in Data : SourceAddToRx(c, f, d)
  \/ \E c \in MainThread, f \in Facades : CopyFacade(c, f)
  \/ \E c \in MainThread, f \in Facades : AssignFacade(c, f)
  \/ \E c \in MainThread, f \in Facades : CopyInit(c, f)
  \/ \E c \in MainThread, f \in Facades : CopyClose(c, f)
  \/ \E c \in MainThread, f \in Facades, d \in Data : CopyAddToTx(c, f, d)
  \/ \E c \in MainThread, f \in Facades, d \in Data : CopyAddToRx(c, f, d)
  \/ \E c \in MainThread : InitStep(c) \/ AddStep(c)
  \/ \E w \in WorkerIds : WorkerStep(w)

SpecCopy == InitFacade /\ [][NextCopy]_vars

\* (6) The supervisor: the main thread constructs InterfaceA a and InterfaceB b,
\*     calls their operations, constructs ProgramApp from them once both are
\*     initialised, and calls run().
BothFacades == {Lanes}

SetupInit(c, f) ==
  /\ ~app.made
  /\ FacadeInit(c, f)

SetupClose(c, f) ==
  /\ ~app.made
  /\ FacadeClose(c, f)

SetupAddToTx(c, f, d) ==
  /\ ~app.made
  /\ cenq[c] < EnqEach
  /\ FacadeAddToTx(c, f, d)

SetupAddToRx(c, f, d) ==
  /\ ~app.made
  /\ cenq[c] < EnqEach
  /\ FacadeAddToRx(c, f, d)

\* ProgramApp::ProgramApp(InterfaceA a1, InterfaceB b1) : a{a1}, b{b1},
\* bStart{false}.  The arguments are passed by value and copied again into the
\* members; InterfaceX's copy constructor has an empty body, so every copy
\* holds default-constructed lanes (bStart false, vec empty, no thread), and
\* the copies made for the parameters die when the constructor returns.
MakeApp(c) ==
  /\ cpc[c] = "idle"
  /\ ~app.made
  /\ built' = built \cup AppLanes
  /\ app' = [made |-> TRUE, bStart |-> FALSE, pc |-> "start", looped |-> FALSE, i |-> 1]
  /\ UNCHANGED <<bStart, vec, locked, cpc, cl, cvia, cdata, csnap, cret, cclean,
                 wk, nenq, cenq, nclose, pushed, removed, lastWrite, remClosed,
                 clearedAt, drainAt, fstate, given, cres>>

\* the main thread constructs ProgramApp when init() of both facades has
\* returned
SetupMakeApp(c) ==
  /\ \A f \in Facades : fstate[f] = "init"
  /\ MakeApp(c)

\* the part of a step of run() that is not the ProgramApp object
RunFrame ==
  UNCHANGED <<built, bStart, vec, locked, cpc, cl, cvia, cdata, csnap, cret,
              cclean, wk, nenq, cenq, nclose, pushed, removed, lastWrite,
              remClosed, clearedAt, drainAt, fstate, given, cres>>

\* (variant) run() writing false to its flag
RunFlagFalse(c) ==
  /\ cpc[c] = "idle"
  /\ app.made /\ app.pc = "start"
  /\ app' = [app EXCEPT !.bStart = FALSE, !.pc = "check"]
  /\ RunFrame

\* bStart = true;
RunFlag(c) ==
  /\ cpc[c] = "idle"
  /\ app.made /\ app.pc = "start"
  /\ app' = [app EXCEPT !.bStart = TRUE, !.pc = "check"]
  /\ RunFrame

\* while (bStart)
RunCheck(c) ==
  /\ cpc[c] = "idle"
  /\ app.pc = "check"
  /\ app' = [app EXCEPT !.pc = IF app.bStart THEN "poll" ELSE "returned", !.i = 1]
  /\ RunFrame

\* the calls of one iteration, in order: a.getRxStats(); a.getTxStats();
\* b.getRxStats(); b.getTxStats();
RunOrder ==
  << [lane |-> Rx("appA"), via |-> "getRxStats"],
     [lane |-> Tx("appA"), via |-> "getTxStats"],
     [lane |-> Rx("appB"), via |-> "getRxStats"],
     [lane |-> Tx("appB"), via |-> "getTxStats"] >>

\* (variant) run() querying b before a
RunPollBFirst(c) ==
  /\ app.pc = "poll"
  /\ StatsBegin(c, RunOrder[((app.i + 1) % 4) + 1].lane, RunOrder[((app.i + 1) % 4) + 1].via)
  /\ app' = IF app.i < Len(RunOrder) THEN [app EXCEPT !.i = @ + 1]
                                     ELSE [app EXCEPT !.pc = "sleep", !.i = 1]

\* run() makes its next call, when the one before has returned; the facade
\* forwards it to the lane's getStats() and run() drops the value
RunPoll(c) ==
  /\ app.pc = "poll"
  /\ StatsBegin(c, RunOrder[app.i].lane, RunOrder[app.i].via)
  /\ app' = IF app.i < Len(RunOrder) THEN [app EXCEPT !.i = @ + 1]
                                     ELSE [app EXCEPT !.pc = "sleep", !.i = 1]

\* std::this_thread::sleep_for(1000 ms), when the last call has returned
RunSleep(c) ==
  /\ cpc[c] = "idle"
  /\ app.pc = "sleep"
  /\ app' = [app EXCEPT !.pc = "check", !.looped = TRUE]
  /\ RunFrame

RunStep(c) == RunFlag(c) \/ RunCheck(c) \/ RunPoll(c) \/ RunSleep(c)

InitSupervisor == InitWith(BothFacades)

NextSupervisor ==
  \/ \E c \in MainThread, f \in Facades : SetupInit(c, f)
  \/ \E c \in MainThread, f \in Facades : SetupClose(c, f)
  \/ \E c \in MainThread, f \in Facades, d \in Data : SetupAddToTx(c, f, d)
  \/ \E c \in MainThread, f \in Facades, d \in Data : SetupAddToRx(c, f, d)
  \/ \E c \in MainThread : SetupMakeApp(c)
  \/ \E c \in MainThread : RunStep(c)
  \/ \E c \in MainThread : InitStep(c) \/ AddStep(c) \/ StatsStep(c)
  \/ \E w \in WorkerIds : WorkerStep(w)

SpecSupervisor == InitSupervisor /\ [][NextSupervisor]_vars

\* ------------------------------------------------------------- properties
IsPrefix(s, t) == Len(s) <= Len(t) /\ SubSeq(t, 1, Len(s)) = s

NoAddOn(l) == \A c \in Callers : ~(InAdd(c) /\ cl[c] = l)
NoInitOn(l) == \A c \in Callers : ~(InInit(c) /\ cl[c] = l)

\* C1: when every addToQueue call of the concurrent callers on a lane that was
\* never initialised has returned, the buffer holds each enqueued item exactly
\* once, its length is the number of calls, and getStats returns that number.
C1_EnqueueThreadSafe ==
  \A l \in built :
    NoAddOn(l) =>
      /\ Len(vec[l]) = nenq
      /\ \A i \in 1..nenq : Cardinality({k \in DOMAIN vec[l] : vec[l][k].id = i}) = 1
      /\ \A c \in Callers : cpc[c] = "stats_ret" => cret[c] = nenq

\* every caller has issued all its calls, all have returned, and a caller reads
\* the length NumCallers * EnqEach
C1_Witness ==
  /\ \A c \in Callers : cenq[c] = EnqEach /\ ~InAdd(c)
  /\ \E c \in Callers : cpc[c] = "stats_ret" /\ cret[c] = NumCallers * EnqEach

\* C2: on a lane whose buffer no clear() has emptied after an append, the
\* workers erase the items in the order they were appended; and as long as
\* nothing was erased, once the enqueues have returned the buffer is the
\* enqueued items in call order and its length their number.
C2_Fifo ==
  \A l \in built :
    ~wiped[l] =>
      /\ IsPrefix(removed[l], pushed[l])
      /\ (removed[l] = <<>> /\ NoAddOn(l)) =>
            (Ids(vec[l]) = pushed[l] /\ Len(vec[l]) = nenq)

\* MaxEnq items were enqueued before the first erasure, and all were erased
C2_Witness ==
  \E l \in built :
    /\ ~wiped[l]
    /\ drainAt[l] = MaxEnq
    /\ Len(removed[l]) = MaxEnq
    /\ removed[l] = pushed[l]

\* C3: at most one thread is inside a critical section of a lane, and the
\* lane's mutex is held exactly when one is.
C3_MutualExclusion ==
  \A l \in Lanes :
    /\ Cardinality(CallersHolding(l)) + Cardinality(WorkersHolding(l)) <= 1
    /\ locked[l] <=> (CallersHolding(l) # {} \/ WorkersHolding(l) # {})

\* a worker is inside its remove step while the caller waits in addToQueue
C3_Witness ==
  \E l \in built, w \in DOMAIN wk :
    /\ wk[w].lane = l /\ wk[w].pc = "write"
    /\ \E c \in Callers : cpc[c] = "add_lock" /\ cl[c] = l

\* C4: when a lane stays running (no close is issued any more), its buffer is
\* eventually empty and stays empty: the enqueues end, and the worker drains
\* what is buffered.
C4_DrainLiveness ==
  \A l \in Lanes : <>[](bStart[l]) => <>[](vec[l] = <<>>)

\* a running lane whose worker has drained MaxEnq items
C4_Witness ==
  \E l \in built :
    /\ bStart[l] /\ vec[l] = <<>>
    /\ Len(removed[l]) = MaxEnq
    /\ \A c \in Callers : cpc[c] = "idle"

\* C5: on a lane initialised once, after close() wrote the flag the worker
\* erases at most one more item.
C5_PostCloseQuiescence ==
  \A l \in built :
    (lastWrite[l] = "close" /\ InitsOn(l) <= 1) => remClosed[l] <= 1

\* closed after one init, one item erased after the close, the worker gone and
\* items left in the buffer
C5_Witness ==
  \E l \in built :
    /\ lastWrite[l] = "close" /\ InitsOn(l) = 1
    /\ remClosed[l] = 1
    /\ Len(wk) = 1 /\ LiveWorkers(l) = {}
    /\ vec[l] # <<>>

\* C6: at most one live worker drains a lane.
C6_OneWorkerPerLane ==
  \A l \in Lanes : Cardinality(LiveWorkers(l)) <= 1

\* C7: after the facade's init() returned, both its lanes are running and each
\* has a worker.
C7_FacadeInitStartsBoth ==
  \A f \in Facades :
    fstate[f] = "init" =>
      /\ bStart[Tx(f)] /\ LiveWorkers(Tx(f)) # {}
      /\ bStart[Rx(f)] /\ LiveWorkers(Rx(f)) # {}

C9_FlagBeforeWorker ==
  \A w \in DOMAIN wk :
    (wk[w].fresh /\ lastWrite[wk[w].lane] # "close") => bStart[wk[w].lane]

\* a worker passed its check and waits for the mutex; close() was never called
C9_Witness ==
  /\ nclose = 0
  /\ \E w \in DOMAIN wk : ~wk[w].fresh /\ wk[w].pc = "lock"

\* C10: when init() returns and no addToQueue on the lane overlapped it, the
\* lane's buffer is empty.
C10_InitClearsBuffer ==
  [][\A c \in Callers :
       (InInit(c) /\ cpc'[c] = "idle" /\ cclean[c]) => vec'[cl[c]] = <<>>]_vars

\* C11: close() writes the running flag of its lane and nothing else: it takes
\* no mutex and waits for no worker, and the buffer, its history and the
\* workers are the same right after the call as right before it.
C11_CloseOnlyClearsFlag ==
  [][nclose' # nclose =>
       /\ vec' = vec /\ pushed' = pushed /\ removed' = removed
       /\ locked' = locked /\ wk' = wk
       /\ \E l \in built : bStart' = [bStart EXCEPT ![l] = FALSE]]_vars

\* close() has returned while a worker is inside its remove step, with two or
\* more items buffered
C11_Witness ==
  \E l \in built, w \in DOMAIN wk :
    /\ lastWrite[l] = "close" /\ ~bStart[l]
    /\ wk[w].lane = l /\ wk[w].pc = "write"
    /\ Len(vec[l]) >= 2
    /\ \A c \in Callers : cpc[c] = "idle"

\* C12: whatever the lane's state, the store of addToQueue appends the
\* caller's item at the tail of the buffer, which is one longer after it; and
\* when no call is under way every call issued has appended its item.
C12_EnqueueNeverRejects ==
  [][/\ \A c \in Callers :
          (cpc[c] = "add_write" /\ cpc'[c] = "add_unlock") =>
             /\ vec'[cl[c]] = Append(vec[cl[c]], cdata[c])
             /\ Len(vec'[cl[c]]) = Len(vec[cl[c]]) + 1
      /\ \A l \in built : NoAddOn(l) => Len(pushed[l]) = nenq]_vars

\* item 1 was appended before the lane's only init(), item 2 while it was
\* running (its worker erased it before close()), and item 3 after close()
C12_Witness ==
  \E l \in built :
    /\ InitsOn(l) = 1 /\ wiped[l]
    /\ lastWrite[l] = "close" /\ remClosed[l] = 0
    /\ pushed[l] = <<1, 2, 3>> /\ removed[l] = <<2>>
    /\ Ids(vec[l]) = <<3>>
    /\ \E c \in Callers : cpc[c] = "add_unlock" /\ cl[c] = l

\* C13: IntfA_Rx::addToQueue buffers the record it was passed with a1 one
\* more when a2 is negative and one less when a2 is zero or positive, and a2
\* as passed; the rule has not run before the mutex is taken and has run once
\* when the record is stored.
C13_RuleSet1 ==
  LET Rule1(g, x) ==
        /\ x.a2 = g.a2
        /\ x.a1 = IF g.a2 < 0 THEN g.a1 + 1 ELSE g.a1 - 1
  IN /\ \A k \in DOMAIN vec["ARx"] : Rule1(given[vec["ARx"][k].id], vec["ARx"][k])
     /\ \A c \in Callers :
          (InAdd(c) /\ cl[c] = "ARx") =>
             IF cpc[c] = "add_lock"
               THEN cdata[c].a1 = given[cdata[c].id].a1
                      /\ cdata[c].a2 = given[cdata[c].id].a2
               ELSE Rule1(given[cdata[c].id], cdata[c]) /\ locked["ARx"]

\* IntfA_Rx buffers three records passed with a2 negative, zero and positive
C13_Witness ==
  /\ Len(vec["ARx"]) = 3
  /\ given[vec["ARx"][1].id].a2 < 0
  /\ given[vec["ARx"][2].id].a2 = 0
  /\ given[vec["ARx"][3].id].a2 > 0

\* C14: IntfA_Tx::addToQueue buffers the record it was passed with a2 one
\* more when a1 is even and one less when a1 is odd, and a1 as passed; the
\* rule has not run before the mutex is taken and has run once when the record
\* is stored.
C14_RuleSet2 ==
  LET Even(n) == \E h \in -4..4 : n = 2 * h
      Rule2(g, x) ==
        /\ x.a1 = g.a1
        /\ x.a2 = IF Even(g.a1) THEN g.a2 + 1 ELSE g.a2 - 1
  IN /\ \A k \in DOMAIN vec["ATx"] : Rule2(given[vec["ATx"][k].id], vec["ATx"][k])
     /\ \A c \in Callers :
          (InAdd(c) /\ cl[c] = "ATx") =>
             IF cpc[c] = "add_lock"
               THEN cdata[c].a1 = given[cdata[c].id].a1
                      /\ cdata[c].a2 = given[cdata[c].id].a2
               ELSE Rule2(given[cdata[c].id], cdata[c]) /\ locked["ATx"]

\* IntfA_Tx buffers three records passed with a1 even, odd and positive, and
\* odd and negative
C14_Witness ==
  /\ Len(vec["ATx"]) = 3
  /\ given[vec["ATx"][1].id].a1 = 2
  /\ given[vec["ATx"][2].id].a1 = 1
  /\ given[vec["ATx"][3].id].a1 = -3

C16_LaneScenario ==
  \A l \in built :
    ( /\ InitsOn(l) = 1 /\ NoInitOn(l) /\ nclose = 0
      /\ nenq = 1 /\ pushed[l] = <<1>> /\ ~wiped[l] ) =>
        /\ removed[l] = <<>> => Len(vec[l]) = 1
        /\ (removed[l] # <<>> /\ WorkersHolding(l) = {}) => vec[l] = <<>>
        /\ \A c \in Callers :
             (cpc[c] = "stats_ret" /\ cl[c] = l /\ \A w \in DOMAIN wk : ~wk[w].woken) =>
                cret[c] = 1

\* C17: every step of an addToTx call leaves the receive lane's buffer and
\* every running flag as they are, and its store appends the item to the
\* transmit lane's buffer; likewise addToRx, with the lanes exchanged.
C17_FacadeAddReachesOneLane ==
  [][\A c \in Callers, f \in Facades :
       (Tx(f) \in built /\ cvia[c] \in {"addToTx", "addToRx"} /\ cpc'[c] # cpc[c]) =>
          LET to == IF cvia[c] = "addToTx" THEN Tx(f) ELSE Rx(f)
              other == IF cvia[c] = "addToTx" THEN Rx(f) ELSE Tx(f)
          IN /\ vec'[other] = vec[other]
             /\ bStart' = bStart /\ wk' = wk
             /\ vec'[to] = IF cpc[c] = "add_write" THEN Append(vec[to], cdata[c])
                                                  ELSE vec[to]]_vars

\* an addToRx has stored its item while the transmit lane is running with an
\* item of its own
C17_Witness ==
  \E c \in Callers, f \in Facades :
    /\ cpc[c] = "add_unlock" /\ cvia[c] = "addToRx"
    /\ Len(vec[Rx(f)]) = 2
    /\ bStart[Tx(f)] /\ Len(vec[Tx(f)]) = 1 /\ LiveWorkers(Tx(f)) # {}

\* C18: the value getTxStats is about to return is the length of the transmit
\* lane's buffer, read under its mutex, and is not negative; likewise
\* getRxStats and the receive lane; and no step of either call changes a
\* buffer or a running flag.
C18_FacadeStats ==
  [][\A c \in Callers, f \in Facades :
       (Tx(f) \in built /\ cvia[c] \in {"getTxStats", "getRxStats"}) =>
          LET of == IF cvia[c] = "getTxStats" THEN Tx(f) ELSE Rx(f)
          IN /\ cpc[c] = "stats_ret" =>
                  (cret[c] >= 0 /\ cret[c] = Len(vec[of]) /\ locked[of])
             /\ cpc'[c] # cpc[c] => (vec' = vec /\ bStart' = bStart)]_vars

\* getRxStats is about to return 2 while the transmit lane, running, buffers
\* one item
C18_Witness ==
  \E c \in Callers, f \in Facades :
    /\ cpc[c] = "stats_ret" /\ cvia[c] = "getRxStats" /\ cret[c] = 2
    /\ bStart[Tx(f)] /\ Len(vec[Tx(f)]) = 1

\* C19: every init() and every close() that has returned has returned true,
\* whatever calls came before it.
C19_LifecycleAlwaysSucceeds ==
  /\ \A c \in Callers : cres[c] \in {"none", "true"}
  /\ (Len(wk) > 0 \/ nclose > 0) => \E c \in Callers : cres[c] = "true"

\* MaxInit init() calls and MaxClose close() calls have returned, the last of
\* them a close()
C19_Witness ==
  \E l \in built :
    /\ nclose = MaxClose /\ Len(wk) = MaxInit
    /\ lastWrite[l] = "close"
    /\ \A c \in Callers : cpc[c] = "idle"
    /\ cres[1] = "true"

\* C20: when close() is the last to write a lane's running flag, every worker
\* of the lane eventually leaves its loop and none runs again.
C20_WorkerTerminates ==
  \A l \in Lanes : <>[](lastWrite[l] = "close") => <>[](LiveWorkers(l) = {})

\* a worker that slept and woke has left its loop after close(), leaving
\* items in the buffer
C20_Witness ==
  \E l \in built, w \in DOMAIN wk :
    /\ lastWrite[l] = "close"
    /\ wk[w].lane = l /\ wk[w].woken /\ wk[w].pc = "done"
    /\ LiveWorkers(l) = {}
    /\ vec[l] # <<>>

C22_Original(l) ==
  CASE l = "appATx" -> "ATx" [] l = "appARx" -> "ARx"
    [] l = "appBTx" -> "BTx" [] l = "appBRx" -> "BRx"
    [] OTHER -> l

\* C22: ProgramApp constructed from two facades on which init() was called
\* holds facades whose lanes are running, and every count run() reads is the
\* length of the buffer of the lane that was initialised.
C22_SupervisorPollsInitialised ==
  app.made =>
    /\ \A g \in AppFacades : bStart[Tx(g)] /\ bStart[Rx(g)]
    /\ \A c \in Callers :
         (cpc[c] = "stats_ret" /\ cl[c] \in AppLanes) =>
            cret[c] = Len(vec[C22_Original(cl[c])])

\* the thread that takes a step inside init()'s clear of lane l
C23_Clearing(l) ==
  \E c \in Callers : cpc[c] = "init_clear" /\ cl[c] = l /\ cpc'[c] # "init_clear"

\* C23: guard invariant: a step that changes a lane's buffer (append, head
\* removal, init()'s clear) is taken by a thread holding the lane's guard, and
\* init()'s clear never runs while a worker or a caller is inside its critical
\* section.
C23_GuardInvariant ==
  [][\A l \in LaneObjs :
       /\ vec'[l] # vec[l] =>
            /\ locked[l]
            /\ \/ \E c \in CallersHolding(l) : cpc'[c] # cpc[c]
               \/ \E w \in WorkersHolding(l) : wk'[w].pc # wk[w].pc
       /\ C23_Clearing(l) => CallersHolding(l) = {} /\ WorkersHolding(l) = {}]_vars

\* the ids enqueued on lane l since init() last cleared its buffer
C24_SinceInit(l) == SubSeq(pushed[l], clearedAt[l] + 1, Len(pushed[l]))

\* C24: the buffer is a contiguous run of the items enqueued since the last
\* init(), in enqueue order, ending with the most recently enqueued item (the
\* worker removes at the head, enqueue appends at the tail).
C24_BufferContiguous ==
  \A l \in LaneObjs :
    LET since == C24_SinceInit(l)
        n == Len(vec[l])
    IN /\ n <= Len(since)
       /\ Ids(vec[l]) = SubSeq(since, Len(since) - n + 1, Len(since))

\* C25: after the facade's init(), an item added with addToRx (and likewise
\* with addToTx), with no further add and no close, is eventually removed: the
\* lane's buffer becomes empty, so the statistic reads 0.
C25_FacadeItemDrained ==
  \A f \in Facades :
    /\ (fstate[f] = "init" /\ vec[Rx(f)] # <<>>) ~> (vec[Rx(f)] = <<>>)
    /\ (fstate[f] = "init" /\ vec[Tx(f)] # <<>>) ~> (vec[Tx(f)] = <<>>)

\* worker w takes a step from position pc
C26_WorkerAt(w, pc) == wk[w].pc = pc /\ wk'[w].pc # pc

\* C26: a worker iteration removes at most one item. Taking the guard, the
\* worker goes on to one removal if the buffer is not empty and to none if it
\* is; the removal takes one item (the buffer it leaves is one shorter than the
\* one it found); releasing the guard it always suspends, and it takes the
\* guard again only after the suspension and the test of the flag. Nothing is
\* removed by any other step.
C26_OneItemPerIteration ==
  [][/\ \A w \in DOMAIN wk :
          LET l == wk[w].lane IN
          /\ C26_WorkerAt(w, "lock") =>
               /\ wk'[w].pc = (IF vec[l] # <<>> THEN "write" ELSE "unlock")
               /\ vec' = vec /\ removed' = removed
          /\ C26_WorkerAt(w, "write") =>
               /\ wk'[w].pc = "unlock"
               /\ Len(removed'[l]) = Len(removed[l]) + 1
               /\ Len(vec'[l]) = Len(wk[w].snap) - 1
               /\ vec[l] = wk[w].snap => Len(vec'[l]) = Len(vec[l]) - 1
          /\ C26_WorkerAt(w, "unlock") =>
               /\ wk'[w].pc = "sleep"
               /\ vec' = vec /\ removed' = removed
          /\ C26_WorkerAt(w, "sleep") => wk'[w].pc = "check" /\ removed' = removed
          /\ C26_WorkerAt(w, "check") => wk'[w].pc \in {"lock", "done"} /\ removed' = removed
     /\ removed' # removed => \E w \in DOMAIN wk : C26_WorkerAt(w, "write")]_vars

\* a worker has removed one item and is suspended while the buffer still holds
\* another
C26_Witness ==
  \E l \in Lanes :
    /\ Len(wk) = 1 /\ wk[1].lane = l /\ wk[1].pc = "sleep"
    /\ Len(removed[l]) = 1
    /\ vec[l] # <<>>

\* C27: the guard is never held across a suspension (a held guard belongs to a
\* thread inside a critical section, never to a suspended worker), and under
\* fair scheduling every addToQueue and every getStats call that has started
\* acquires the guard and returns.
C27_CallsComplete ==
  /\ [](\A l \in LaneObjs :
          locked[l] => CallersHolding(l) \cup WorkersHolding(l) # {})
  /\ \A c \in MainThread :
       (cpc[c] \in {"add_lock", "stats_lock"}) ~> (cpc[c] = "idle")

\* a call waits for the guard while a worker holds it
C27_Witness ==
  \E c \in Callers :
    /\ cpc[c] \in {"add_lock", "stats_lock"}
    /\ locked[cl[c]]
    /\ WorkersHolding(cl[c]) # {}

\* the step changes lane l: its buffer, its flag, its guard or one of its
\* workers (a worker never leaves its lane and is never removed)
C28_Changed(l) ==
  \/ vec'[l] # vec[l]
  \/ bStart'[l] # bStart[l]
  \/ locked'[l] # locked[l]
  \/ \E w \in DOMAIN wk' :
       /\ wk'[w].lane = l
       /\ (w \notin DOMAIN wk \/ wk'[w] # wk[w])

\* C28: lane isolation. A step of an operation on one lane (init, close,
\* addToQueue, getStats, a worker's step) changes the buffer, the flag, the
\* guard and the workers of no other lane, of the same facade or of the other:
\* a step changes at most one lane, and that lane is the one the stepping
\* caller is in or the stepping worker belongs to.
C28_LaneIsolation ==
  [][LET changed == {l \in LaneObjs : C28_Changed(l)} IN
     /\ Cardinality(changed) <= 1
     /\ \A c \in Callers :
          (cpc[c] # "idle" /\ cpc'[c] # cpc[c]) => changed \subseteq {cl[c]}
     /\ \A w \in DOMAIN wk :
          wk'[w] # wk[w] => changed \subseteq {wk[w].lane}]_vars

\* both facades have a running transmit lane with a worker inside its critical
\* section or waiting, and buffers of the two facades hold items
C28_Witness ==
  /\ bStart["ATx"] /\ bStart["BTx"]
  /\ vec["ATx"] # <<>> /\ vec["BRx"] # <<>>
  /\ \E w \in DOMAIN wk : wk[w].lane = "BTx" /\ wk[w].pc = "unlock"
  /\ \E w \in DOMAIN wk : wk[w].lane = "ATx" /\ wk[w].pc = "write"

\* C29: on a lane on which init() has never been called the flag is false, no
\* worker exists, nothing is ever removed, the buffer holds every item enqueued
\* so far (it is empty before the first enqueue), getStats returns the number
\* of completed enqueues, and the length never decreases.
C29_NeverInitialised ==
  /\ [](\A l \in LaneObjs :
          InitsOn(l) = 0 =>
            /\ ~bStart[l]
            /\ \A w \in DOMAIN wk : wk[w].lane # l
            /\ removed[l] = <<>>
            /\ Ids(vec[l]) = pushed[l]
            /\ \A c \in MainThread :
                 (cpc[c] = "stats_ret" /\ cl[c] = l) =>
                    cret[c] = Len(vec[l]) /\ (built = {l} => cret[c] = nenq))
  /\ [][\A l \in LaneObjs :
          InitsOn(l) = 0 => Len(vec'[l]) >= Len(vec[l])]_vars

\* a lane never initialised, closed, holds MaxEnq items and getStats is about
\* to return MaxEnq
C29_Witness ==
  \E l \in Lanes :
    /\ InitsOn(l) = 0 /\ built = {l}
    /\ lastWrite[l] = "close"
    /\ cpc[1] = "stats_ret" /\ cl[1] = l
    /\ cret[1] = MaxEnq

\* C30: close() is idempotent and legal in every state. Every close() leaves
\* the lane stopped with its buffer, its guard and its workers as they were and
\* returns true; a close() on a lane whose flag close() wrote last (close twice
\* in a row) or on which init() was never called changes nothing of the lane.
C30_CloseIdempotent ==
  [][nclose' # nclose =>
       \A l \in built :
         /\ ~bStart'[l]
         /\ vec' = vec /\ locked' = locked /\ wk' = wk
         /\ \E c \in Callers : cpc[c] = "idle" /\ cpc'[c] = "idle" /\ cres'[c] = "true"
         /\ (lastWrite[l] = "close" \/ InitsOn(l) = 0) => bStart' = bStart]_vars

\* close() has been called for the second time on a lane never initialised
\* that holds items
C30_Witness ==
  \E l \in Lanes :
    /\ built = {l} /\ InitsOn(l) = 0
    /\ nclose >= 2
    /\ Len(vec[l]) = 2
    /\ ~bStart[l]

\* the lanes of interface B
C31_LanesB == {"BTx", "BRx"}

\* C31: the lanes of interface B buffer items unchanged: every buffered item
\* equals, field for field, the item the caller supplied, and the caller's item
\* is the supplied value at every point of the call, its return included.
C31_LanesBCopyUnchanged ==
  \A l \in C31_LanesB :
    /\ \A k \in DOMAIN vec[l] :
         /\ vec[l][k].a1 = given[vec[l][k].id].a1
         /\ vec[l][k].a2 = given[vec[l][k].id].a2
    /\ \A c \in Callers :
         (InAdd(c) /\ cl[c] = l) =>
            /\ cdata[c].a1 = given[cdata[c].id].a1
            /\ cdata[c].a2 = given[cdata[c].id].a2

\* a lane of interface B buffers three records, of the kinds the rules of
\* interface A would change, and the third call is about to return
C31_Witness ==
  \E l \in C31_LanesB :
    /\ Len(vec[l]) = 3
    /\ given[vec[l][1].id].a2 < 0
    /\ given[vec[l][2].id].a1 = 1
    /\ given[vec[l][3].id].a2 > 0
    /\ \E c \in Callers : cpc[c] = "add_unlock" /\ cl[c] = l

\* the record d after k applications of the rule of IntfA_Rx, whose test reads
\* a2, which the rule leaves alone
C32_Rule1Times(d, k) ==
  [a1 |-> IF d.a2 < 0 THEN d.a1 + k ELSE d.a1 - k, a2 |-> d.a2]

\* the record d after k applications of the rule of IntfA_Tx, whose test reads
\* a1, which the rule leaves alone
C32_Rule2Times(d, k) ==
  [a1 |-> d.a1, a2 |-> IF d.a1 % 2 = 0 THEN d.a2 + k ELSE d.a2 - k]

C32_Fields(x) == [a1 |-> x.a1, a2 |-> x.a2]

\* C32: the rule of interface A's lanes is applied to the caller's record: a
\* thread passing one record again and again finds, as the k-th buffered item,
\* the original record after k applications of the rule (one more than the
\* record it passed in the k-th call), and after each return its record equals
\* the item buffered last.
C32_TransformInPlace ==
  /\ \A k \in DOMAIN vec["ARx"] :
       /\ C32_Fields(vec["ARx"][k]) = C32_Rule1Times(given[1], k)
       /\ C32_Fields(vec["ARx"][k]) = C32_Rule1Times(given[k], 1)
  /\ \A k \in DOMAIN vec["ATx"] :
       /\ C32_Fields(vec["ATx"][k]) = C32_Rule2Times(given[1], k)
       /\ C32_Fields(vec["ATx"][k]) = C32_Rule2Times(given[k], 1)
  /\ \A c \in MainThread, l \in {"ARx", "ATx"} :
       (l \in built /\ cenq[c] > 0 /\ cpc[c] \in {"add_unlock", "idle"}) =>
          /\ Len(vec[l]) = cenq[c]
          /\ C32_Fields(cdata[c]) = C32_Fields(vec[l][Len(vec[l])])

\* the same record has been passed MaxEnq times to a lane of interface A and
\* the last call has returned
C32_Witness ==
  \E l \in {"ARx", "ATx"} :
    /\ l \in built
    /\ Len(vec[l]) = MaxEnq
    /\ cpc[1] = "idle"
    /\ vec[l][1] # vec[l][MaxEnq]

\* C33: no worker touches a destroyed lane: when close() was called before
\* the lane is destroyed, no worker of the lane reads the running flag, takes
\* or releases the guard or touches the buffer after the destruction.
C33_NoWorkerAfterDestroy ==
  [][\A w \in DOMAIN wk :
       (wk[w].pc \in {"check", "lock", "write", "unlock"} /\ wk'[w].pc # wk[w].pc)
          => wk[w].lane \in built]_vars

\* the lane and the facade operation of the i-th call of an iteration of run()
C34_Lane(i) ==
  CASE i = 1 -> "appARx" [] i = 2 -> "appATx" [] i = 3 -> "appBRx" [] OTHER -> "appBTx"
C34_Via(i) == IF i \in {1, 3} THEN "getRxStats" ELSE "getTxStats"

\* C34: an iteration of run() calls getRxStats and getTxStats of a, then of b,
\* then suspends and tests its flag again; which step comes next depends on
\* the position in the loop only, never on a value read; and no step of run()
\* or of the calls it makes changes a buffer, a running flag or a worker.
C34_RunOnlyObserves ==
  [][app.made =>
       /\ (app.pc = "poll" /\ app' # app) =>
             /\ \E c \in MainThread :
                  /\ cpc[c] = "idle" /\ cpc'[c] = "stats_lock"
                  /\ cl'[c] = C34_Lane(app.i)
                  /\ cvia'[c] = C34_Via(app.i)
             /\ app'.pc = (IF app.i = 4 THEN "sleep" ELSE "poll")
             /\ app.i < 4 => app'.i = app.i + 1
       /\ (app.pc = "sleep" /\ app' # app) => app'.pc = "check"
       /\ (app.pc = "check" /\ app' # app) => app'.pc = "poll" /\ app'.i = 1
       /\ (app' # app \/ \E c \in MainThread : cpc'[c] # cpc[c]) =>
             vec' = vec /\ bStart' = bStart /\ wk' = wk]_vars

\* run() is in its second iteration, the last of the four calls is about to
\* return, and lanes of the caller's facades hold items and are running
C34_Witness ==
  /\ app.looped /\ app.pc = "sleep"
  /\ cpc[1] = "stats_ret" /\ cl[1] = "appBTx"
  /\ \E l \in Lanes : vec[l] # <<>>
  /\ \E l \in Lanes : bStart[l]

\* the step changes lane l: its buffer, its flag, its guard or one of its
\* workers
C35_Changed(l) ==
  \/ vec'[l] # vec[l]
  \/ bStart'[l] # bStart[l]
  \/ locked'[l] # locked[l]
  \/ \E w \in DOMAIN wk' :
       wk'[w].lane = l /\ (w \notin DOMAIN wk \/ wk'[w] # wk[w])

\* C35: copying a facade does not copy lane state. The copy constructor
\* leaves every existing lane as it was and gives the copy two lanes of its
\* own, empty, stopped, with a free guard and no worker, whatever the source
\* holds; assignment changes no lane; and no step of an operation on the copy
\* or of a worker of the copy changes a lane of the source.
C35_CopyIsFresh ==
  [][/\ built' # built =>
          /\ vec' = vec /\ bStart' = bStart /\ locked' = locked /\ wk' = wk
          /\ \A l \in built' \ built :
               /\ l \in AppLanes
               /\ vec'[l] = <<>> /\ ~bStart'[l] /\ ~locked'[l]
               /\ \A w \in DOMAIN wk' : wk'[w].lane # l
     /\ (\E c \in Callers : cres'[c] = "copy" /\ cres[c] # "copy") =>
          \A l \in LaneObjs : ~C35_Changed(l)
     /\ (\E l \in AppLanes : C35_Changed(l)) => \A l \in Lanes : ~C35_Changed(l)
     /\ \A c \in Callers :
          (cpc'[c] # cpc[c] /\ (cl[c] \in AppLanes \/ cl'[c] \in AppLanes)) =>
             \A l \in Lanes : ~C35_Changed(l)
     /\ \A w \in DOMAIN wk :
          (wk[w].lane \in AppLanes /\ wk'[w] # wk[w]) => \A l \in Lanes : ~C35_Changed(l)]_vars

\* the copy of a facade whose transmit lane is running and holds an item is
\* still stopped and empty, while the copy's own receive lane holds an item
\* added through the copy
C35_Witness ==
  \E f \in Facades :
    /\ Copied(f)
    /\ bStart[Tx(f)] /\ vec[Tx(f)] # <<>>
    /\ ~bStart[Tx(CopyOf(f))] /\ vec[Tx(CopyOf(f))] = <<>>
    /\ vec[Rx(CopyOf(f))] # <<>>

\* C36: the running flag is written by init() (true) and close() (false)
\* only: a step that changes a flag is init()'s store or a close(), no step of
\* a worker, of addToQueue or of getStats changes one, and so, while no init()
\* is in progress, the lane the facade's lifecycle calls reach is running
\* exactly when the last completed lifecycle call was init(), and the other
\* lane is never running.
C36_FlagWrittenByLifecycleOnly ==
  /\ [][
       /\ \A l \in LaneObjs :
            (bStart'[l] # bStart[l]) =>
              \/ /\ bStart'[l]
                 /\ \E c \in Callers :
                      cpc[c] = "init_flag" /\ cl[c] = l /\ cpc'[c] = "init_spawn"
              \/ /\ ~bStart'[l]
                 /\ nclose' = nclose + 1
                 /\ \E c \in Callers : cpc[c] = "idle" /\ cpc'[c] = "idle"
       /\ (wk' # wk /\ Len(wk') = Len(wk)) => (bStart' = bStart)
       /\ \A c \in Callers :
            ( /\ cpc'[c] # cpc[c]
              /\ \/ cpc[c] \in {"add_lock", "add_write", "add_unlock",
                                 "stats_lock", "stats_ret"}
                 \/ cpc'[c] \in {"add_lock", "stats_lock"} ) => (bStart' = bStart)
     ]_vars
  /\ [](\A f \in Facades :
          /\ NoInitOn(Tx(f)) => (bStart[Tx(f)] <=> fstate[f] = "init")
          /\ ~bStart[Rx(f)])

\* a running lane holds an item while its worker is about to erase another
\* and a getStats call waits for the guard; the facade was closed and
\* initialised again
C36_Witness ==
  \E f \in Facades :
    /\ bStart[Tx(f)] /\ fstate[f] = "init" /\ nclose > 0
    /\ \E w \in DOMAIN wk : wk[w].lane = Tx(f) /\ wk[w].pc = "write"
    /\ \E c \in Callers : cpc[c] = "stats_lock" /\ cl[c] = Tx(f)

====
